---- MODULE Spec2Model ----
(***************************************************************************)
(* A model of the two-pass Hack assembler of unified-assembler.py.         *)
(*                                                                         *)
(* Text (raw lines, normalized lines, symbols, mnemonics, binary words) is  *)
(* a sequence of characters, so that strip, split, slicing, startswith and *)
(* concatenation are computed character by character.  A printable ASCII   *)
(* character is the one-character string of itself; tab, newline, carriage *)
(* return and form feed are "\t", "\n", "\r", "\f"; every other character *)
(* is the string U+ followed by its code point in four to six hexadecimal  *)
(* digits, as in "U+000B", "U+00B2", "U+0663".                             *)
(***************************************************************************)
EXTENDS Integers, Sequences, FiniteSets, TLC

VARIABLES
    source,                 \* the input file: its raw lines, in order
    same_file,              \* output_file is the file input_file
    pc,                     \* position in assemble
    lines,                  \* Parser.lines of the current parser
    current_line,           \* Parser.current_line (0-based, -1 before advance)
    current_instruction,    \* Parser.current_instruction
    table,                  \* SymbolTable.table
    next_variable_address,  \* SymbolTable.next_variable_address
    rom_address,            \* rom_address of assemble
    out,                    \* the output file: the lines written to it
    writer,                 \* the lines of out that have not reached the file
    run,                    \* number of the current call of assemble
    input,                  \* the input file as the current call found it
    first,                  \* input, output and outcome of the first call
    ret,                    \* value returned by the last SymbolTable call
    calls,                  \* names passed to add_variable so far, in order
    fields                  \* results of Parser.dest / comp / jump

vars == <<source, same_file, pc, lines, current_line, current_instruction,
          table, next_variable_address, rom_address, out, writer, run,
          input, first, ret, calls, fields>>

\* the variables of the call of assemble
call_vars == <<same_file, run, input, first>>

\* the variables of the specifications of SymbolTable and Parser alone
unit_vars == <<ret, calls, fields>>

\* Python's None
None == <<>>

-----------------------------------------------------------------------------
(* Python string primitives used by the program *)

\* characters removed by str.strip(): those for which str.isspace() is true
Whitespace == {
    "\t", "\n", "U+000B", "\f", "\r", "U+001C", "U+001D", "U+001E",
    "U+001F", " ", "U+0085", "U+00A0", "U+1680", "U+2000", "U+2001",
    "U+2002", "U+2003", "U+2004", "U+2005", "U+2006", "U+2007", "U+2008",
    "U+2009", "U+200A", "U+2028", "U+2029", "U+202F", "U+205F", "U+3000"
}

\* the decimal digits of Unicode (str.isdecimal()), which int() accepts:
\* DecimalDigits[v + 1] holds the characters whose value is v
DecimalDigits == <<
  {
    "0", "U+0660", "U+06F0", "U+07C0", "U+0966", "U+09E6", "U+0A66",
    "U+0AE6", "U+0B66", "U+0BE6", "U+0C66", "U+0CE6", "U+0D66", "U+0DE6",
    "U+0E50", "U+0ED0", "U+0F20", "U+1040", "U+1090", "U+17E0", "U+1810",
    "U+1946", "U+19D0", "U+1A80", "U+1A90", "U+1B50", "U+1BB0", "U+1C40",
    "U+1C50", "U+A620", "U+A8D0", "U+A900", "U+A9D0", "U+A9F0", "U+AA50",
    "U+ABF0", "U+FF10", "U+104A0", "U+10D30", "U+11066", "U+110F0",
    "U+11136", "U+111D0", "U+112F0", "U+11450", "U+114D0", "U+11650",
    "U+116C0", "U+11730", "U+118E0", "U+11950", "U+11C50", "U+11D50",
    "U+11DA0", "U+16A60", "U+16AC0", "U+16B50", "U+1D7CE", "U+1D7D8",
    "U+1D7E2", "U+1D7EC", "U+1D7F6", "U+1E140", "U+1E2F0", "U+1E950",
    "U+1FBF0"
  },
  {
    "1", "U+0661", "U+06F1", "U+07C1", "U+0967", "U+09E7", "U+0A67",
    "U+0AE7", "U+0B67", "U+0BE7", "U+0C67", "U+0CE7", "U+0D67", "U+0DE7",
    "U+0E51", "U+0ED1", "U+0F21", "U+1041", "U+1091", "U+17E1", "U+1811",
    "U+1947", "U+19D1", "U+1A81", "U+1A91", "U+1B51", "U+1BB1", "U+1C41",
    "U+1C51", "U+A621", "U+A8D1", "U+A901", "U+A9D1", "U+A9F1", "U+AA51",
    "U+ABF1", "U+FF11", "U+104A1", "U+10D31", "U+11067", "U+110F1",
    "U+11137", "U+111D1", "U+112F1", "U+11451", "U+114D1", "U+11651",
    "U+116C1", "U+11731", "U+118E1", "U+11951", "U+11C51", "U+11D51",
    "U+11DA1", "U+16A61", "U+16AC1", "U+16B51", "U+1D7CF", "U+1D7D9",
    "U+1D7E3", "U+1D7ED", "U+1D7F7", "U+1E141", "U+1E2F1", "U+1E951",
    "U+1FBF1"
  },
  {
    "2", "U+0662", "U+06F2", "U+07C2", "U+0968", "U+09E8", "U+0A68",
    "U+0AE8", "U+0B68", "U+0BE8", "U+0C68", "U+0CE8", "U+0D68", "U+0DE8",
    "U+0E52", "U+0ED2", "U+0F22", "U+1042", "U+1092", "U+17E2", "U+1812",
    "U+1948", "U+19D2", "U+1A82", "U+1A92", "U+1B52", "U+1BB2", "U+1C42",
    "U+1C52", "U+A622", "U+A8D2", "U+A902", "U+A9D2", "U+A9F2", "U+AA52",
    "U+ABF2", "U+FF12", "U+104A2", "U+10D32", "U+11068", "U+110F2",
    "U+11138", "U+111D2", "U+112F2", "U+11452", "U+114D2", "U+11652",
    "U+116C2", "U+11732", "U+118E2", "U+11952", "U+11C52", "U+11D52",
    "U+11DA2", "U+16A62", "U+16AC2", "U+16B52", "U+1D7D0", "U+1D7DA",
    "U+1D7E4", "U+1D7EE", "U+1D7F8", "U+1E142", "U+1E2F2", "U+1E952",
    "U+1FBF2"
  },
  {
    "3", "U+0663", "U+06F3", "U+07C3", "U+0969", "U+09E9", "U+0A69",
    "U+0AE9", "U+0B69", "U+0BE9", "U+0C69", "U+0CE9", "U+0D69", "U+0DE9",
    "U+0E53", "U+0ED3", "U+0F23", "U+1043", "U+1093", "U+17E3", "U+1813",
    "U+1949", "U+19D3", "U+1A83", "U+1A93", "U+1B53", "U+1BB3", "U+1C43",
    "U+1C53", "U+A623", "U+A8D3", "U+A903", "U+A9D3", "U+A9F3", "U+AA53",
    "U+ABF3", "U+FF13", "U+104A3", "U+10D33", "U+11069", "U+110F3",
    "U+11139", "U+111D3", "U+112F3", "U+11453", "U+114D3", "U+11653",
    "U+116C3", "U+11733", "U+118E3", "U+11953", "U+11C53", "U+11D53",
    "U+11DA3", "U+16A63", "U+16AC3", "U+16B53", "U+1D7D1", "U+1D7DB",
    "U+1D7E5", "U+1D7EF", "U+1D7F9", "U+1E143", "U+1E2F3", "U+1E953",
    "U+1FBF3"
  },
  {
    "4", "U+0664", "U+06F4", "U+07C4", "U+096A", "U+09EA", "U+0A6A",
    "U+0AEA", "U+0B6A", "U+0BEA", "U+0C6A", "U+0CEA", "U+0D6A", "U+0DEA",
    "U+0E54", "U+0ED4", "U+0F24", "U+1044", "U+1094", "U+17E4", "U+1814",
    "U+194A", "U+19D4", "U+1A84", "U+1A94", "U+1B54", "U+1BB4", "U+1C44",
    "U+1C54", "U+A624", "U+A8D4", "U+A904", "U+A9D4", "U+A9F4", "U+AA54",
    "U+ABF4", "U+FF14", "U+104A4", "U+10D34", "U+1106A", "U+110F4",
    "U+1113A", "U+111D4", "U+112F4", "U+11454", "U+114D4", "U+11654",
    "U+116C4", "U+11734", "U+118E4", "U+11954", "U+11C54", "U+11D54",
    "U+11DA4", "U+16A64", "U+16AC4", "U+16B54", "U+1D7D2", "U+1D7DC",
    "U+1D7E6", "U+1D7F0", "U+1D7FA", "U+1E144", "U+1E2F4", "U+1E954",
    "U+1FBF4"
  },
  {
    "5", "U+0665", "U+06F5", "U+07C5", "U+096B", "U+09EB", "U+0A6B",
    "U+0AEB", "U+0B6B", "U+0BEB", "U+0C6B", "U+0CEB", "U+0D6B", "U+0DEB",
    "U+0E55", "U+0ED5", "U+0F25", "U+1045", "U+1095", "U+17E5", "U+1815",
    "U+194B", "U+19D5", "U+1A85", "U+1A95", "U+1B55", "U+1BB5", "U+1C45",
    "U+1C55", "U+A625", "U+A8D5", "U+A905", "U+A9D5", "U+A9F5", "U+AA55",
    "U+ABF5", "U+FF15", "U+104A5", "U+10D35", "U+1106B", "U+110F5",
    "U+1113B", "U+111D5", "U+112F5", "U+11455", "U+114D5", "U+11655",
    "U+116C5", "U+11735", "U+118E5", "U+11955", "U+11C55", "U+11D55",
    "U+11DA5", "U+16A65", "U+16AC5", "U+16B55", "U+1D7D3", "U+1D7DD",
    "U+1D7E7", "U+1D7F1", "U+1D7FB", "U+1E145", "U+1E2F5", "U+1E955",
    "U+1FBF5"
  },
  {
    "6", "U+0666", "U+06F6", "U+07C6", "U+096C", "U+09EC", "U+0A6C",
    "U+0AEC", "U+0B6C", "U+0BEC", "U+0C6C", "U+0CEC", "U+0D6C", "U+0DEC",
    "U+0E56", "U+0ED6", "U+0F26", "U+1046", "U+1096", "U+17E6", "U+1816",
    "U+194C", "U+19D6", "U+1A86", "U+1A96", "U+1B56", "U+1BB6", "U+1C46",
    "U+1C56", "U+A626", "U+A8D6", "U+A906", "U+A9D6", "U+A9F6", "U+AA56",
    "U+ABF6", "U+FF16", "U+104A6", "U+10D36", "U+1106C", "U+110F6",
    "U+1113C", "U+111D6", "U+112F6", "U+11456", "U+114D6", "U+11656",
    "U+116C6", "U+11736", "U+118E6", "U+11956", "U+11C56", "U+11D56",
    "U+11DA6", "U+16A66", "U+16AC6", "U+16B56", "U+1D7D4", "U+1D7DE",
    "U+1D7E8", "U+1D7F2", "U+1D7FC", "U+1E146", "U+1E2F6", "U+1E956",
    "U+1FBF6"
  },
  {
    "7", "U+0667", "U+06F7", "U+07C7", "U+096D", "U+09ED", "U+0A6D",
    "U+0AED", "U+0B6D", "U+0BED", "U+0C6D", "U+0CED", "U+0D6D", "U+0DED",
    "U+0E57", "U+0ED7", "U+0F27", "U+1047", "U+1097", "U+17E7", "U+1817",
    "U+194D", "U+19D7", "U+1A87", "U+1A97", "U+1B57", "U+1BB7", "U+1C47",
    "U+1C57", "U+A627", "U+A8D7", "U+A907", "U+A9D7", "U+A9F7", "U+AA57",
    "U+ABF7", "U+FF17", "U+104A7", "U+10D37", "U+1106D", "U+110F7",
    "U+1113D", "U+111D7", "U+112F7", "U+11457", "U+114D7", "U+11657",
    "U+116C7", "U+11737", "U+118E7", "U+11957", "U+11C57", "U+11D57",
    "U+11DA7", "U+16A67", "U+16AC7", "U+16B57", "U+1D7D5", "U+1D7DF",
    "U+1D7E9", "U+1D7F3", "U+1D7FD", "U+1E147", "U+1E2F7", "U+1E957",
    "U+1FBF7"
  },
  {
    "8", "U+0668", "U+06F8", "U+07C8", "U+096E", "U+09EE", "U+0A6E",
    "U+0AEE", "U+0B6E", "U+0BEE", "U+0C6E", "U+0CEE", "U+0D6E", "U+0DEE",
    "U+0E58", "U+0ED8", "U+0F28", "U+1048", "U+1098", "U+17E8", "U+1818",
    "U+194E", "U+19D8", "U+1A88", "U+1A98", "U+1B58", "U+1BB8", "U+1C48",
    "U+1C58", "U+A628", "U+A8D8", "U+A908", "U+A9D8", "U+A9F8", "U+AA58",
    "U+ABF8", "U+FF18", "U+104A8", "U+10D38", "U+1106E", "U+110F8",
    "U+1113E", "U+111D8", "U+112F8", "U+11458", "U+114D8", "U+11658",
    "U+116C8", "U+11738", "U+118E8", "U+11958", "U+11C58", "U+11D58",
    "U+11DA8", "U+16A68", "U+16AC8", "U+16B58", "U+1D7D6", "U+1D7E0",
    "U+1D7EA", "U+1D7F4", "U+1D7FE", "U+1E148", "U+1E2F8", "U+1E958",
    "U+1FBF8"
  },
  {
    "9", "U+0669", "U+06F9", "U+07C9", "U+096F", "U+09EF", "U+0A6F",
    "U+0AEF", "U+0B6F", "U+0BEF", "U+0C6F", "U+0CEF", "U+0D6F", "U+0DEF",
    "U+0E59", "U+0ED9", "U+0F29", "U+1049", "U+1099", "U+17E9", "U+1819",
    "U+194F", "U+19D9", "U+1A89", "U+1A99", "U+1B59", "U+1BB9", "U+1C49",
    "U+1C59", "U+A629", "U+A8D9", "U+A909", "U+A9D9", "U+A9F9", "U+AA59",
    "U+ABF9", "U+FF19", "U+104A9", "U+10D39", "U+1106F", "U+110F9",
    "U+1113F", "U+111D9", "U+112F9", "U+11459", "U+114D9", "U+11659",
    "U+116C9", "U+11739", "U+118E9", "U+11959", "U+11C59", "U+11D59",
    "U+11DA9", "U+16A69", "U+16AC9", "U+16B59", "U+1D7D7", "U+1D7E1",
    "U+1D7EB", "U+1D7F5", "U+1D7FF", "U+1E149", "U+1E2F9", "U+1E959",
    "U+1FBF9"
  }
>>

\* characters for which str.isdigit() is true and that int() rejects:
\* superscripts, subscripts, circled and other non-decimal digits
OtherDigits == {
    "U+00B2", "U+00B3", "U+00B9", "U+1369", "U+136A", "U+136B", "U+136C",
    "U+136D", "U+136E", "U+136F", "U+1370", "U+1371", "U+19DA", "U+2070",
    "U+2074", "U+2075", "U+2076", "U+2077", "U+2078", "U+2079", "U+2080",
    "U+2081", "U+2082", "U+2083", "U+2084", "U+2085", "U+2086", "U+2087",
    "U+2088", "U+2089", "U+2460", "U+2461", "U+2462", "U+2463", "U+2464",
    "U+2465", "U+2466", "U+2467", "U+2468", "U+2474", "U+2475", "U+2476",
    "U+2477", "U+2478", "U+2479", "U+247A", "U+247B", "U+247C", "U+2488",
    "U+2489", "U+248A", "U+248B", "U+248C", "U+248D", "U+248E", "U+248F",
    "U+2490", "U+24EA", "U+24F5", "U+24F6", "U+24F7", "U+24F8", "U+24F9",
    "U+24FA", "U+24FB", "U+24FC", "U+24FD", "U+24FF", "U+2776", "U+2777",
    "U+2778", "U+2779", "U+277A", "U+277B", "U+277C", "U+277D", "U+277E",
    "U+2780", "U+2781", "U+2782", "U+2783", "U+2784", "U+2785", "U+2786",
    "U+2787", "U+2788", "U+278A", "U+278B", "U+278C", "U+278D", "U+278E",
    "U+278F", "U+2790", "U+2791", "U+2792", "U+10A40", "U+10A41",
    "U+10A42", "U+10A43", "U+10E60", "U+10E61", "U+10E62", "U+10E63",
    "U+10E64", "U+10E65", "U+10E66", "U+10E67", "U+10E68", "U+11052",
    "U+11053", "U+11054", "U+11055", "U+11056", "U+11057", "U+11058",
    "U+11059", "U+1105A", "U+1F100", "U+1F101", "U+1F102", "U+1F103",
    "U+1F104", "U+1F105", "U+1F106", "U+1F107", "U+1F108", "U+1F109",
    "U+1F10A"
}

\* characters int() accepts
Decimals == UNION {DecimalDigits[v] : v \in 1..10}

\* characters for which str.isdigit() is true
Digits == Decimals \cup OtherDigits

\* s.startswith(prefix)
startswith(s, prefix) ==
    /\ Len(s) >= Len(prefix)
    /\ SubSeq(s, 1, Len(prefix)) = prefix

\* s.find(sep) + 1: position of the first occurrence of sep in s, 0 if none
find(s, sep) ==
    LET hits == {i \in 1..(Len(s) - Len(sep) + 1) :
                    SubSeq(s, i, i + Len(sep) - 1) = sep}
    IN  IF hits = {} THEN 0
        ELSE CHOOSE i \in hits : \A j \in hits : i <= j

\* s.split(sep): the pieces of s between the occurrences of sep
RECURSIVE split(_, _)
split(s, sep) ==
    LET i == find(s, sep)
    IN  IF i = 0 THEN <<s>>
        ELSE <<SubSeq(s, 1, i - 1)>>
                \o split(SubSeq(s, i + Len(sep), Len(s)), sep)

\* s.strip()
strip(s) ==
    LET keep == {i \in 1..Len(s) : s[i] \notin Whitespace}
    IN  IF keep = {} THEN <<>>
        ELSE LET lo == CHOOSE i \in keep : \A j \in keep : i <= j
                 hi == CHOOSE i \in keep : \A j \in keep : j <= i
             IN  SubSeq(s, lo, hi)

\* c in s, for a separator c
contains_str(s, c) == find(s, c) # 0

\* s.isdigit()
isdigit(s) == Len(s) > 0 /\ \A i \in 1..Len(s) : s[i] \in Digits

\* the value of a decimal digit
DigitValue(c) == (CHOOSE v \in 1..10 : c \in DecimalDigits[v]) - 1

\* sys.int_max_str_digits: the longest string int() converts
int_max_str_digits == 4300

\* int(s) raises ValueError, for s with s.isdigit(): a digit that is not a
\* decimal digit, or more digits than int() converts
int_raises(s) ==
    \/ \E i \in 1..Len(s) : s[i] \notin Decimals
    \/ Len(s) > int_max_str_digits

\* int(s) for a string of decimal digits
RECURSIVE int(_)
int(s) ==
    IF Len(s) = 0 THEN 0
    ELSE 10 * int(SubSeq(s, 1, Len(s) - 1)) + DigitValue(s[Len(s)])

\* format(value, 'b'): the binary digits of value, no padding
RECURSIVE bin(_)
bin(value) ==
    IF value < 2 THEN (IF value = 0 THEN <<"0">> ELSE <<"1">>)
    ELSE Append(bin(value \div 2), IF value % 2 = 0 THEN "0" ELSE "1")

\* left padding with zeros up to a minimum width
RECURSIVE zfill(_, _)
zfill(str, width) ==
    IF Len(str) >= width THEN str ELSE zfill(<<"0">> \o str, width)

\* format(value, '016b'): at least 16 binary digits, more if value needs them
format_016b(value) == zfill(bin(value), 16)

-----------------------------------------------------------------------------
(* class Parser *)

\* the body of the loop of Parser.preprocess_lines, for one raw line
preprocess_line(line) == strip(split(strip(line), <<"/", "/">>)[1])

\* Parser.preprocess_lines: the lines of the file the loop keeps, in order
preprocess_lines(file) ==
    SelectSeq([i \in 1..Len(file) |-> preprocess_line(file[i])],
              LAMBDA line : line # <<>> /\ ~startswith(line, <<"/", "/">>))

\* Parser.has_more_lines
has_more_lines(cl, ls) == cl < Len(ls) - 1

\* Parser.instruction_type
instruction_type(instruction) ==
    IF startswith(instruction, <<"@">>) THEN "A_INSTRUCTION"
    ELSE IF startswith(instruction, <<"(">>) THEN "L_INSTRUCTION"
    ELSE "C_INSTRUCTION"

\* raise ValueError(...): the exception, as the value of the call
ValueError == [raises |-> "ValueError"]

\* Parser.symbol
symbol(instruction) ==
    IF instruction_type(instruction) = "A_INSTRUCTION"
    THEN SubSeq(instruction, 2, Len(instruction))
    ELSE IF instruction_type(instruction) = "L_INSTRUCTION"
    THEN SubSeq(instruction, 2, Len(instruction) - 1)
    ELSE ValueError

\* Parser.dest without the test for an assignment marker
Parser_dest_unconditional(instruction) == split(instruction, <<"=">>)[1]

\* Parser.dest
Parser_dest(instruction) ==
    IF contains_str(instruction, <<"=">>)
    THEN split(instruction, <<"=">>)[1]
    ELSE <<>>

\* Parser.comp
Parser_comp(instruction) ==
    LET pieces == split(instruction, <<"=">>)
        last   == pieces[Len(pieces)]
    IN  split(last, <<";">>)[1]

\* Parser.jump
Parser_jump(instruction) ==
    IF contains_str(instruction, <<";">>)
    THEN LET pieces == split(instruction, <<";">>)
         IN  pieces[Len(pieces)]
    ELSE <<>>

-----------------------------------------------------------------------------
(* class Code *)

dest_table ==
    (<<>>            :> <<"0", "0", "0">>)
    @@ (<<"M">>         :> <<"0", "0", "1">>)
    @@ (<<"D">>         :> <<"0", "1", "0">>)
    @@ (<<"M", "D">>    :> <<"0", "1", "1">>)
    @@ (<<"A">>         :> <<"1", "0", "0">>)
    @@ (<<"A", "M">>    :> <<"1", "0", "1">>)
    @@ (<<"A", "D">>    :> <<"1", "1", "0">>)
    @@ (<<"A", "M", "D">> :> <<"1", "1", "1">>)

jump_table ==
    (<<>>            :> <<"0", "0", "0">>)
    @@ (<<"J", "G", "T">> :> <<"0", "0", "1">>)
    @@ (<<"J", "E", "Q">> :> <<"0", "1", "0">>)
    @@ (<<"J", "G", "E">> :> <<"0", "1", "1">>)
    @@ (<<"J", "L", "T">> :> <<"1", "0", "0">>)
    @@ (<<"J", "N", "E">> :> <<"1", "0", "1">>)
    @@ (<<"J", "L", "E">> :> <<"1", "1", "0">>)
    @@ (<<"J", "M", "P">> :> <<"1", "1", "1">>)

comp_table ==
    (<<"0">>         :> <<"0", "1", "0", "1", "0", "1", "0">>)
    @@ (<<"1">>         :> <<"0", "1", "1", "1", "1", "1", "1">>)
    @@ (<<"-", "1">>    :> <<"0", "1", "1", "1", "0", "1", "0">>)
    @@ (<<"D">>         :> <<"0", "0", "0", "1", "1", "0", "0">>)
    @@ (<<"A">>         :> <<"0", "1", "1", "0", "0", "0", "0">>)
    @@ (<<"!", "D">>    :> <<"0", "0", "0", "1", "1", "0", "1">>)
    @@ (<<"!", "A">>    :> <<"0", "1", "1", "0", "0", "0", "1">>)
    @@ (<<"-", "D">>    :> <<"0", "0", "0", "1", "1", "1", "1">>)
    @@ (<<"-", "A">>    :> <<"0", "1", "1", "0", "0", "1", "1">>)
    @@ (<<"D", "+", "1">> :> <<"0", "0", "1", "1", "1", "1", "1">>)
    @@ (<<"A", "+", "1">> :> <<"0", "1", "1", "0", "1", "1", "1">>)
    @@ (<<"D", "-", "1">> :> <<"0", "0", "0", "1", "1", "1", "0">>)
    @@ (<<"A", "-", "1">> :> <<"0", "1", "1", "0", "0", "1", "0">>)
    @@ (<<"D", "+", "A">> :> <<"0", "0", "0", "0", "0", "1", "0">>)
    @@ (<<"D", "-", "A">> :> <<"0", "0", "1", "0", "0", "1", "1">>)
    @@ (<<"A", "-", "D">> :> <<"0", "0", "0", "0", "1", "1", "1">>)
    @@ (<<"D", "&", "A">> :> <<"0", "0", "0", "0", "0", "0", "0">>)
    @@ (<<"D", "|", "A">> :> <<"0", "0", "1", "0", "1", "0", "1">>)
    @@ (<<"M">>         :> <<"1", "1", "1", "0", "0", "0", "0">>)
    @@ (<<"!", "M">>    :> <<"1", "1", "1", "0", "0", "0", "1">>)
    @@ (<<"-", "M">>    :> <<"1", "1", "1", "0", "0", "1", "1">>)
    @@ (<<"M", "+", "1">> :> <<"1", "1", "1", "0", "1", "1", "1">>)
    @@ (<<"M", "-", "1">> :> <<"1", "1", "1", "0", "0", "1", "0">>)
    @@ (<<"D", "+", "M">> :> <<"1", "0", "0", "0", "0", "1", "0">>)
    @@ (<<"D", "-", "M">> :> <<"1", "0", "1", "0", "0", "1", "1">>)
    @@ (<<"M", "-", "D">> :> <<"1", "0", "0", "0", "1", "1", "1">>)
    @@ (<<"D", "&", "M">> :> <<"1", "0", "0", "0", "0", "0", "0">>)
    @@ (<<"D", "|", "M">> :> <<"1", "0", "1", "0", "1", "0", "1">>)

\* dict.get(key, default)
get(dict, key, default) == IF key \in DOMAIN dict THEN dict[key] ELSE default

\* Code.dest
Code_dest(mnemonic) == get(dest_table, mnemonic, <<"0", "0", "0">>)

\* Code.comp with the 3-digit default of the other two tables
Code_comp_short_default(mnemonic) == get(comp_table, mnemonic, <<"0", "0", "0">>)

\* Code.comp
Code_comp(mnemonic) == get(comp_table, mnemonic, <<"0", "0", "0", "0", "0", "0", "0">>)

\* Code.jump
Code_jump(mnemonic) == get(jump_table, mnemonic, <<"0", "0", "0">>)

\* the word of a C-instruction with the fields in source order
c_word_dest_first(instruction) ==
    <<"1", "1", "1">> \o Code_dest(Parser_dest(instruction))
          \o Code_comp(Parser_comp(instruction))
          \o Code_jump(Parser_jump(instruction))

\* the word of a C-instruction, lines 145-148 of assemble
c_word(instruction) ==
    <<"1", "1", "1">> \o Code_comp(Parser_comp(instruction))
          \o Code_dest(Parser_dest(instruction))
          \o Code_jump(Parser_jump(instruction))

-----------------------------------------------------------------------------
(* class SymbolTable *)

\* the table built by SymbolTable.__init__
predefined ==
    (<<"S", "P">> :> 0) @@ (<<"L", "C", "L">> :> 1) @@ (<<"A", "R", "G">> :> 2)
    @@ (<<"T", "H", "I", "S">> :> 3) @@ (<<"T", "H", "A", "T">> :> 4)
    @@ (<<"R", "0">> :> 0) @@ (<<"R", "1">> :> 1) @@ (<<"R", "2">> :> 2)
    @@ (<<"R", "3">> :> 3) @@ (<<"R", "4">> :> 4) @@ (<<"R", "5">> :> 5)
    @@ (<<"R", "6">> :> 6) @@ (<<"R", "7">> :> 7) @@ (<<"R", "8">> :> 8)
    @@ (<<"R", "9">> :> 9) @@ (<<"R", "1", "0">> :> 10)
    @@ (<<"R", "1", "1">> :> 11) @@ (<<"R", "1", "2">> :> 12)
    @@ (<<"R", "1", "3">> :> 13) @@ (<<"R", "1", "4">> :> 14)
    @@ (<<"R", "1", "5">> :> 15)
    @@ (<<"S", "C", "R", "E", "E", "N">> :> 16384)
    @@ (<<"K", "B", "D">> :> 24576)

\* the value SymbolTable.__init__ gives next_variable_address
first_variable_address == 16

\* SymbolTable.add_entry: the table after self.table[symbol] = address
add_entry(t, sym, address) ==
    [s \in DOMAIN t \cup {sym} |-> IF s = sym THEN address ELSE t[s]]

\* SymbolTable.contains
contains(t, sym) == sym \in DOMAIN t

\* SymbolTable.get_address
get_address(t, sym) == get(t, sym, None)

\* SymbolTable.add_variable with the increment outside the if
add_variable_always_advance(t, nva, sym) ==
    LET t2 == IF ~contains(t, sym) THEN add_entry(t, sym, nva) ELSE t
    IN  [table |-> t2, next_variable_address |-> nva + 1, ret |-> t2[sym]]

\* SymbolTable.add_variable: the table, the counter and the returned address
add_variable(t, nva, sym) ==
    LET t2   == IF ~contains(t, sym) THEN add_entry(t, sym, nva) ELSE t
        nva2 == IF ~contains(t, sym) THEN nva + 1 ELSE nva
    IN  [table |-> t2, next_variable_address |-> nva2, ret |-> t2[sym]]

-----------------------------------------------------------------------------
(* Input files *)

\* longest input file, in raw lines
MaxLines == 3

\* the raw lines an input file is made of
RawLines == {
    <<"(", "L", ")">>,                                   \* (L)
    <<"(", "S", "P", ")">>,                              \* (SP)
    <<"@", "L">>,                                        \* @L
    <<"@", "S", "P">>,                                   \* @SP
    <<"@", "v">>,                                        \* @v
    <<"U+000B", "@", "w", "U+00A0", "/", "/", "x">>,     \* @w //x, in a vertical tab and a no-break space
    <<"@", "U+0663">>,                                   \* @3, an Arabic-Indic digit
    <<"@", "U+00B2">>,                                   \* @2, a superscript digit
    <<"@", "3", "2", "7", "6", "8">>,                    \* @32768
    <<"D", "=", "M", ";", "J", "G", "T">>,               \* D=M;JGT
    <<"/", "/", " ", "c">>                               \* // c
}

\* all sequences over S of length at most n
RECURSIVE SeqsUpTo(_, _)
SeqsUpTo(S, n) ==
    IF n = 0 THEN {<<>>}
    ELSE LET shorter == SeqsUpTo(S, n - 1)
         IN  shorter \cup {Append(q, x) : q \in {r \in shorter : Len(r) = n - 1}, x \in S}

Programs == SeqsUpTo(RawLines, MaxLines)

-----------------------------------------------------------------------------
(* assemble *)

\* Parser.advance: the new current_line
advance(cl) == cl + 1

\* self.lines[self.current_line], Python's 0-based indexing
line_at(ls, cl) == ls[cl + 1]

\* f.write(binary + '\n')
write(f, binary) == Append(f, binary)

\* TextIOWrapper._CHUNK_SIZE: the bytes a text file keeps pending at most
chunk_size == 8192

\* the buffer size of the BufferedWriter that open() builds: st_blksize of
\* the output file, 4096 on the file systems the program runs on here
buffer_size == 4096

\* the writer of a file that open() has just opened: no line pending in the
\* TextIOWrapper, none in the buffer of its BufferedWriter
new_writer ==
    [pending_bytes |-> <<>>, pending_bytes_count |-> 0, buffer |-> <<>>, pos |-> 0]

\* BufferedWriter.write of the lines b, n bytes: they are buffered when
\* they fit in the buffer; otherwise the buffer goes to the file, and b goes
\* after it when it is larger than the buffer
buffered_write(wr, b, n) ==
    IF n <= buffer_size - wr.pos
    THEN [wr EXCEPT !.buffer = @ \o b, !.pos = @ + n]
    ELSE IF n > buffer_size
    THEN [wr EXCEPT !.buffer = <<>>, !.pos = 0]
    ELSE [wr EXCEPT !.buffer = b, !.pos = n]

\* TextIOWrapper: the pending lines are passed on to the BufferedWriter
writeflush(wr) ==
    IF wr.pending_bytes = <<>> THEN wr
    ELSE buffered_write([wr EXCEPT !.pending_bytes = <<>>,
                                   !.pending_bytes_count = 0],
                        wr.pending_bytes, wr.pending_bytes_count)

\* TextIOWrapper.write(binary + '\n'), one byte per character: the pending
\* lines are passed on first when the new line would take them over
\* chunk_size, and with the new line when they reach chunk_size
text_write(wr, binary) ==
    LET n       == Len(binary) + 1
        room    == IF /\ wr.pending_bytes # <<>>
                      /\ wr.pending_bytes_count + n > chunk_size
                   THEN writeflush(wr) ELSE wr
        pending == [room EXCEPT !.pending_bytes = Append(@, binary),
                                !.pending_bytes_count = @ + n]
    IN  IF pending.pending_bytes_count >= chunk_size
        THEN writeflush(pending) ELSE pending

\* f.close() at the exit of the with block: every line reaches the file
close(wr) == new_writer

\* the lines of the output file that are in the file itself, f being the
\* lines written to it
on_disk(f, wr) ==
    SubSeq(f, 1, Len(f) - Len(wr.buffer) - Len(wr.pending_bytes))

\* the input file while the output file is open: the output file itself
\* when both are one file
input_file(src, same, f, wr) == IF same THEN on_disk(f, wr) ELSE src

\* open(output_file, 'a'): the content of the file once opened
open_a(content) == content

\* open(output_file, 'w'): the content of the file once opened
open_w(content) == <<>>

\* lines 136-137: the reference is numeric and int() raises ValueError
value_raises(sym) == isdigit(sym) /\ int_raises(sym)

\* lines 135-141 without the lookup: every symbolic reference is a new variable
resolve_no_lookup(t, nva, sym) ==
    IF isdigit(sym)
    THEN [table |-> t, next_variable_address |-> nva, ret |-> int(sym)]
    ELSE [table |-> add_entry(t, sym, nva), next_variable_address |-> nva + 1,
          ret |-> nva]

\* lines 135-141: the table, the counter and the value of an A-instruction
\* whose reference int() does not reject
resolve(t, nva, sym) ==
    IF isdigit(sym)
    THEN [table |-> t, next_variable_address |-> nva, ret |-> int(sym)]
    ELSE IF contains(t, sym)
    THEN [table |-> t, next_variable_address |-> nva,
          ret |-> get_address(t, sym)]
    ELSE add_variable(t, nva, sym)

\* the input file once the with block of line 131 has closed the output
\* file: the words written, when both are one file
closed(src, same, f) == input_file(src, same, f, new_writer)

\* lines 117-119: a new SymbolTable, a new Parser, rom_address = 0
Enter ==
    /\ table = predefined
    /\ next_variable_address = first_variable_address
    /\ lines = preprocess_lines(source)
    /\ current_line = -1
    /\ current_instruction = None
    /\ rom_address = 0
    /\ input = source
    /\ pc = "pass1"

\* the first call of assemble, on any input file and another output file
Init ==
    /\ source \in Programs
    /\ same_file = FALSE
    /\ Enter
    /\ out = <<>>
    /\ writer = new_writer
    /\ run = 1
    /\ first = None
    /\ ret = None
    /\ calls = <<>>
    /\ fields = None

\* pass 1 reads a label and stores its line number
Pass1Label_line_number ==
    /\ pc = "pass1"
    /\ has_more_lines(current_line, lines)
    /\ LET cl == advance(current_line)
           ci == line_at(lines, cl)
       IN  /\ instruction_type(ci) = "L_INSTRUCTION"
           /\ current_line' = cl
           /\ current_instruction' = ci
           /\ table' = add_entry(table, symbol(ci), cl)
    /\ UNCHANGED <<source, pc, lines, next_variable_address, rom_address,
                   out, writer, call_vars, unit_vars>>

\* lines 121-124: pass 1 reads a label
Pass1Label ==
    /\ pc = "pass1"
    /\ has_more_lines(current_line, lines)
    /\ LET cl == advance(current_line)
           ci == line_at(lines, cl)
       IN  /\ instruction_type(ci) = "L_INSTRUCTION"
           /\ current_line' = cl
           /\ current_instruction' = ci
           /\ table' = add_entry(table, symbol(ci), rom_address)
    /\ UNCHANGED <<source, pc, lines, next_variable_address, rom_address,
                   out, writer, call_vars, unit_vars>>

\* lines 121-126: pass 1 reads an A- or C-instruction
Pass1Instruction ==
    /\ pc = "pass1"
    /\ has_more_lines(current_line, lines)
    /\ LET cl == advance(current_line)
           ci == line_at(lines, cl)
       IN  /\ instruction_type(ci) # "L_INSTRUCTION"
           /\ current_line' = cl
           /\ current_instruction' = ci
           /\ rom_address' = rom_address + 1
    /\ UNCHANGED <<source, pc, lines, table, next_variable_address, out,
                   writer, call_vars, unit_vars>>

\* lines 129-131: pass 1 is over; a new Parser reads the input file, then
\* the output file is opened and truncated
BeginPass2 ==
    /\ pc = "pass1"
    /\ ~has_more_lines(current_line, lines)
    /\ lines' = preprocess_lines(source)
    /\ current_line' = -1
    /\ current_instruction' = None
    /\ out' = open_w(out)
    /\ writer' = new_writer
    /\ source' = IF same_file THEN open_w(source) ELSE source
    /\ pc' = "pass2"
    /\ UNCHANGED <<table, next_variable_address, rom_address, call_vars,
                   unit_vars>>

\* lines 132-143: pass 2 reads an A-instruction; when int() raises, the
\* with block closes the output file and assemble ends with ValueError
Pass2A ==
    /\ pc = "pass2"
    /\ has_more_lines(current_line, lines)
    /\ LET cl == advance(current_line)
           ci == line_at(lines, cl)
       IN  /\ instruction_type(ci) = "A_INSTRUCTION"
           /\ current_line' = cl
           /\ current_instruction' = ci
           /\ IF value_raises(symbol(ci))
              THEN /\ pc' = "error"
                   /\ writer' = close(writer)
                   /\ source' = closed(source, same_file, out)
                   /\ UNCHANGED <<table, next_variable_address, out>>
              ELSE LET r == resolve(table, next_variable_address, symbol(ci))
                   IN  /\ table' = r.table
                       /\ next_variable_address' = r.next_variable_address
                       /\ out' = write(out, format_016b(r.ret))
                       /\ writer' = text_write(writer, format_016b(r.ret))
                       /\ source' = input_file(source, same_file, out', writer')
                       /\ UNCHANGED pc
    /\ UNCHANGED <<lines, rom_address, call_vars, unit_vars>>

\* lines 132-133, 144-149: pass 2 reads a C-instruction
Pass2C ==
    /\ pc = "pass2"
    /\ has_more_lines(current_line, lines)
    /\ LET cl == advance(current_line)
           ci == line_at(lines, cl)
       IN  /\ instruction_type(ci) = "C_INSTRUCTION"
           /\ current_line' = cl
           /\ current_instruction' = ci
           /\ out' = write(out, c_word(ci))
           /\ writer' = text_write(writer, c_word(ci))
           /\ source' = input_file(source, same_file, out', writer')
    /\ UNCHANGED <<pc, lines, table, next_variable_address, rom_address,
                   call_vars, unit_vars>>

\* lines 132-134, 144: pass 2 reads a label and writes nothing
Pass2Label ==
    /\ pc = "pass2"
    /\ has_more_lines(current_line, lines)
    /\ LET cl == advance(current_line)
           ci == line_at(lines, cl)
       IN  /\ instruction_type(ci) = "L_INSTRUCTION"
           /\ current_line' = cl
           /\ current_instruction' = ci
    /\ UNCHANGED <<source, pc, lines, table, next_variable_address,
                   rom_address, out, writer, call_vars, unit_vars>>

\* line 132: pass 2 is over, the output file is closed, assemble returns
Finish ==
    /\ pc = "pass2"
    /\ ~has_more_lines(current_line, lines)
    /\ pc' = "done"
    /\ writer' = close(writer)
    /\ source' = closed(source, same_file, out)
    /\ UNCHANGED <<lines, current_line, current_instruction, table,
                   next_variable_address, rom_address, out, call_vars,
                   unit_vars>>

Next ==
    \/ Pass1Label
    \/ Pass1Instruction
    \/ BeginPass2
    \/ Pass2A
    \/ Pass2C
    \/ Pass2Label
    \/ Finish

Spec == Init /\ [][Next]_vars

-----------------------------------------------------------------------------
(* assemble called twice with the same arguments *)

\* longest input file of the two-call specification, in raw lines
MaxLinesTwice == 2

\* lines 115-119 again: the first call has returned or raised, assemble is
\* called anew with the same file names
Rerun ==
    /\ pc \in {"done", "error"}
    /\ run = 1
    /\ run' = 2
    /\ first' = [input |-> input, out |-> out, pc |-> pc]
    /\ input' = source
    /\ table' = predefined
    /\ next_variable_address' = first_variable_address
    /\ lines' = preprocess_lines(source)
    /\ current_line' = -1
    /\ current_instruction' = None
    /\ rom_address' = 0
    /\ pc' = "pass1"
    /\ UNCHANGED <<source, same_file, out, writer, unit_vars>>

\* a line that is its own word: a computation field that is in no table
ZeroWord == <<"1", "1", "1", "0", "0", "0", "0", "0",
              "0", "0", "0", "0", "0", "0", "0", "0">>

\* length of the long input files, in raw lines: their words take more
\* than chunk_size bytes
LongLen == 483

\* the files of LongLen lines that repeat one instruction
LongFiles ==
    {[i \in 1..LongLen |-> l] :
        l \in {<<"@", "U+0663">>, <<"D", "=", "M", ";", "J", "G", "T">>}}

\* the first call, the output file being the input file or another file
InitTwice ==
    /\ source \in SeqsUpTo(RawLines \cup {ZeroWord}, MaxLinesTwice) \cup LongFiles
    /\ same_file \in BOOLEAN
    /\ Enter
    /\ out = IF same_file THEN source ELSE <<>>
    /\ writer = new_writer
    /\ run = 1
    /\ first = None
    /\ ret = None
    /\ calls = <<>>
    /\ fields = None

NextTwice ==
    \/ Next
    \/ Rerun

SpecTwice == InitTwice /\ [][NextTwice]_vars

-----------------------------------------------------------------------------
(* SymbolTable alone: add_variable called on a new table *)

\* number of add_variable calls
MaxCalls == 4

\* the names add_variable is called with
SymNames == {<<"v">>, <<"w">>, <<"s", "u", "m">>, <<"S", "P">>, <<"R", "1">>}

InitSym ==
    /\ table = predefined
    /\ next_variable_address = first_variable_address
    /\ ret = None
    /\ calls = <<>>
    /\ source = <<>>
    /\ pc = "symbols"
    /\ lines = <<>>
    /\ current_line = -1
    /\ current_instruction = None
    /\ rom_address = 0
    /\ out = <<>>
    /\ writer = new_writer
    /\ same_file = FALSE
    /\ run = 1
    /\ input = <<>>
    /\ first = None
    /\ fields = None

\* symbol_table.add_variable(name)
AddVariable ==
    /\ pc = "symbols"
    /\ Len(calls) < MaxCalls
    /\ \E name \in SymNames :
          LET r == add_variable(table, next_variable_address, name)
          IN  /\ table' = r.table
              /\ next_variable_address' = r.next_variable_address
              /\ ret' = r.ret
              /\ calls' = Append(calls, name)
    /\ UNCHANGED <<source, pc, lines, current_line, current_instruction,
                   rom_address, out, writer, call_vars, fields>>

NextSym == AddVariable

SpecSym == InitSym /\ [][NextSym]_vars

-----------------------------------------------------------------------------
(* assemble on files that end with one C-instruction, mapped or not *)

\* longest C-instruction, in characters
MaxLineLen == 4

\* the characters a C-instruction is made of
FieldChars == {"D", "M", "J", "=", ";"}

\* every text of these characters, malformed ones included
CLines == SeqsUpTo(FieldChars, MaxLineLen) \ {<<>>}

\* the text dest=comp;jump, the marker left out with an empty dest or jump
Join(d, c, j) ==
    (IF d = <<>> THEN <<>> ELSE d \o <<"=">>)
        \o c \o (IF j = <<>> THEN <<>> ELSE <<";">> \o j)

\* every C-instruction made of mnemonics of the three tables
MnemonicLines ==
    {Join(d, c, j) : d \in DOMAIN dest_table, c \in DOMAIN comp_table,
                     j \in DOMAIN jump_table}

\* the lines before the C-instruction: (L), @7
Prelude == << <<"(", "L", ")">>, <<"@", "7">> >>

\* the C-instructions tried
CodeLines == MnemonicLines \cup CLines

InitCode ==
    /\ source \in {Append(Prelude, c) : c \in CodeLines}
    /\ same_file = FALSE
    /\ Enter
    /\ out = <<>>
    /\ writer = new_writer
    /\ run = 1
    /\ first = None
    /\ ret = None
    /\ calls = <<>>
    /\ fields = None

SpecCode == InitCode /\ [][Next]_vars

-----------------------------------------------------------------------------
(* Parser alone: the three fields of one C-instruction *)

InitParser ==
    /\ current_instruction \in CodeLines
    /\ lines = <<current_instruction>>
    /\ current_line = 0
    /\ fields = None
    /\ source = lines
    /\ pc = "fields"
    /\ table = predefined
    /\ next_variable_address = first_variable_address
    /\ rom_address = 0
    /\ out = <<>>
    /\ writer = new_writer
    /\ same_file = FALSE
    /\ run = 1
    /\ input = source
    /\ first = None
    /\ ret = None
    /\ calls = <<>>

\* parser.dest(), parser.comp(), parser.jump() on the current instruction
ParseFields ==
    /\ pc = "fields"
    /\ pc' = "parsed"
    /\ fields' = [dest |-> Parser_dest(current_instruction),
                  comp |-> Parser_comp(current_instruction),
                  jump |-> Parser_jump(current_instruction)]
    /\ UNCHANGED <<source, lines, current_line, current_instruction,
                   table, next_variable_address, rom_address, out, writer,
                   call_vars, ret, calls>>

NextParser == ParseFields

SpecParser == InitParser /\ [][NextParser]_vars

-----------------------------------------------------------------------------
(* What the claims speak of, stated on the input file as the call found it *)

\* 2^15, the first address that does not fit the 15 address bits of a word
AddressLimit == 2^15

\* the normalized form of raw line j of the input file
Normal(j) == preprocess_line(input[j])

\* raw line j survives normalization
Survives(j) == Normal(j) # <<>>

IsLabel(j) == Survives(j) /\ Head(Normal(j)) = "("

IsAddress(j) == Survives(j) /\ Head(Normal(j)) = "@"

IsCompute(j) == Survives(j) /\ ~IsLabel(j) /\ ~IsAddress(j)

\* the name a label line defines, the reference an address line carries
NameOf(j) ==
    IF IsLabel(j) THEN SubSeq(Normal(j), 2, Len(Normal(j)) - 1)
    ELSE SubSeq(Normal(j), 2, Len(Normal(j)))

\* number of Address and Compute instructions among the raw lines before j
InstructionsBefore(j) ==
    Cardinality({k \in 1..(j - 1) : IsAddress(k) \/ IsCompute(k)})

\* the names defined by the labels of the input file
LabelNames == {NameOf(j) : j \in {k \in 1..Len(input) : IsLabel(k)}}

\* pass 1 has read every line
AfterPass1 ==
    \/ pc = "pass1" /\ ~has_more_lines(current_line, lines)
    \/ pc \in {"pass2", "done", "error"}

\* the raw line that normalized line number n (1-based) comes from
RawIndex(n) ==
    CHOOSE j \in 1..Len(input) :
        /\ Survives(j)
        /\ Cardinality({k \in 1..j : Survives(k)}) = n

\* the w-digit binary numeral of n, for 0 <= n < 2^w
RECURSIVE FixedBits(_, _)
FixedBits(n, w) ==
    IF w = 0 THEN <<>>
    ELSE Append(FixedBits(n \div 2, w - 1), IF n % 2 = 1 THEN "1" ELSE "0")

\* pass 2 has just read raw line j (a line that survives normalization)
JustRead(j) ==
    /\ pc \in {"pass2", "error"}
    /\ current_line >= 0
    /\ j = RawIndex(current_line + 1)

-----------------------------------------------------------------------------
(* C1: label addresses after pass 1 *)

\* C1, as stated: after pass 1 the address stored for the name of every
\* label line equals the number of Address and Compute instructions before
\* that line in the input file.
C1_Original ==
    AfterPass1 =>
        \A j \in 1..Len(input) :
            IsLabel(j) =>
                /\ NameOf(j) \in DOMAIN table
                /\ table[NameOf(j)] = InstructionsBefore(j)

\* raw line j is a label whose name is not a predefined symbol and is
\* defined by no other label line of the file
DefinedOnce(j) ==
    /\ IsLabel(j)
    /\ NameOf(j) \notin DOMAIN predefined
    /\ \A k \in 1..Len(input) :
          (k # j /\ IsLabel(k)) => NameOf(k) # NameOf(j)

\* C1, amended: after pass 1, for every label line whose name is not a
\* predefined symbol and is defined by that line only, the address stored
\* for the name equals the number of Address and Compute instructions
\* before the line; lines removed by normalization and other labels do not
\* count.
C1_Amended ==
    AfterPass1 =>
        \A j \in 1..Len(input) :
            DefinedOnce(j)
            => /\ NameOf(j) \in DOMAIN table
               /\ table[NameOf(j)] = InstructionsBefore(j)

\* pass 1 is over for a file in which a label that is defined once follows
\* an instruction, a line that normalization removes and another label
C1_Witness ==
    /\ AfterPass1
    /\ \E j \in 1..Len(input) :
          /\ DefinedOnce(j)
          /\ InstructionsBefore(j) >= 1
          /\ \E k \in 1..(j - 1) : ~Survives(k) \/ IsLabel(k)
          /\ table[NameOf(j)] = InstructionsBefore(j)

-----------------------------------------------------------------------------
(* C3: pass 1 and the names already in the table *)

\* C3, as stated: a step of pass 1 never changes the address of a name that
\* is already in the symbol table (predefined, or defined by an earlier
\* label).
C3_Claim ==
    [][pc = "pass1" =>
          \A s \in DOMAIN table : s \in DOMAIN table' /\ table'[s] = table[s]]_vars

-----------------------------------------------------------------------------
(* C5: the word of an Address Instruction *)

\* the address an Address Instruction at raw line j resolves to
ResolvedAddress(j) ==
    IF isdigit(NameOf(j)) THEN int(NameOf(j)) ELSE table[NameOf(j)]

\* C5, as stated: when pass 2 reads any Address Instruction it writes a
\* word of exactly 16 binary digits, a 0 followed by the 15-digit binary
\* numeral of the resolved address.
C5_Claim ==
    \A j \in 1..Len(input) :
        (JustRead(j) /\ IsAddress(j)) =>
            /\ pc = "pass2"
            /\ LET w == out[Len(out)]
               IN  /\ Len(w) = 16
                   /\ ResolvedAddress(j) < AddressLimit
                   /\ w = <<"0">> \o FixedBits(ResolvedAddress(j), 15)

-----------------------------------------------------------------------------
(* C2: variable addresses on a new SymbolTable *)

\* the names of a sequence of calls that were not in the table SymbolTable.__init__
\* builds, each once, in the order of their first call
RECURSIVE NewNames(_)
NewNames(q) ==
    IF q = <<>> THEN <<>>
    ELSE LET before == NewNames(SubSeq(q, 1, Len(q) - 1))
             name   == q[Len(q)]
         IN  IF name \in DOMAIN predefined
                \/ \E i \in 1..Len(before) : before[i] = name
             THEN before
             ELSE Append(before, name)

\* C2: after any sequence of add_variable calls on a new SymbolTable, the
\* k-th distinct new name has address 16 + (k - 1), the addresses of new
\* names increase strictly in that order, next_variable_address has advanced
\* once per distinct new name only, and the last call returned the address
\* stored for its name.
C2_Theorem ==
    pc = "symbols" =>
        LET new == NewNames(calls)
        IN  /\ \A k \in 1..Len(new) :
                  /\ new[k] \in DOMAIN table
                  /\ table[new[k]] = 16 + (k - 1)
            /\ \A k \in 1..(Len(new) - 1) : table[new[k]] < table[new[k + 1]]
            /\ next_variable_address = 16 + Len(new)
            /\ calls # <<>> => ret = table[calls[Len(calls)]]

\* two distinct new names have been resolved and one of them resolved again
C2_Witness ==
    /\ pc = "symbols"
    /\ Len(NewNames(calls)) = 2
    /\ Len(calls) >= 3
    /\ calls[Len(calls)] = calls[1]
    /\ ret = 16
    /\ next_variable_address = 18

-----------------------------------------------------------------------------
(* C4: symbolic references in pass 2 *)

\* C4: a step of pass 2 keeps every entry the table already has; when it
\* reads an Address Instruction whose non-numeric reference is the name of a
\* label of the file (before or after the reference) or a predefined symbol,
\* it writes the word of the stored address and allocates nothing; and when
\* it allocates, the name was absent from the table, is neither a label nor
\* predefined, and gets the address next_variable_address had.
C4_Theorem ==
    [][(pc = "pass2" /\ current_line' # current_line) =>
          LET j   == RawIndex(current_line' + 1)
              sym == NameOf(j)
          IN  /\ \A s \in DOMAIN table :
                    s \in DOMAIN table' /\ table'[s] = table[s]
              /\ (/\ IsAddress(j)
                  /\ ~isdigit(sym)
                  /\ sym \in LabelNames \cup DOMAIN predefined)
                 => /\ table' = table
                    /\ next_variable_address' = next_variable_address
                    /\ out' = Append(out, format_016b(table[sym]))
              /\ (table' # table
                    \/ next_variable_address' # next_variable_address)
                 => /\ IsAddress(j)
                    /\ sym \notin DOMAIN table
                    /\ sym \notin LabelNames \cup DOMAIN predefined
                    /\ DOMAIN table' = DOMAIN table \cup {sym}
                    /\ table'[sym] = next_variable_address
                    /\ next_variable_address' = next_variable_address + 1
      ]_vars

\* pass 2 has just resolved a reference to a label that is defined further
\* down the file, after a variable had been allocated
C4_Witness ==
    \E j \in 1..Len(input) :
        /\ JustRead(j)
        /\ pc = "pass2"
        /\ IsAddress(j)
        /\ ~isdigit(NameOf(j))
        /\ \E k \in (j + 1)..Len(input) :
              IsLabel(k) /\ NameOf(k) = NameOf(j)
        /\ next_variable_address = 17
        /\ out[Len(out)] = format_016b(table[NameOf(j)])

-----------------------------------------------------------------------------
(* C6: the word of a Compute Instruction *)

\* C6: the word written for a Compute Instruction has 16 digits: 111, then
\* a 7-digit computation code, a 3-digit destination code and a 3-digit jump
\* code, in that order; a field that is a key of its table is encoded by
\* the table's entry, and an absent destination or jump by 000.
C6_Theorem ==
    \A j \in 1..Len(input) :
        (JustRead(j) /\ IsCompute(j)) =>
            LET w == out[Len(out)]
                d == Parser_dest(Normal(j))
                c == Parser_comp(Normal(j))
                jm == Parser_jump(Normal(j))
                cd == IF d \in DOMAIN dest_table THEN dest_table[d] ELSE <<"0", "0", "0">>
                cc == IF c \in DOMAIN comp_table THEN comp_table[c] ELSE <<"0", "0", "0", "0", "0", "0", "0">>
                cj == IF jm \in DOMAIN jump_table THEN jump_table[jm] ELSE <<"0", "0", "0">>
            IN  /\ Len(w) = 16
                /\ Len(cc) = 7 /\ Len(cd) = 3 /\ Len(cj) = 3
                /\ w = <<"1", "1", "1">> \o cc \o cd \o cj
                /\ d = <<>> => cd = <<"0", "0", "0">>
                /\ jm = <<>> => cj = <<"0", "0", "0">>
                /\ Normal(j) = <<"D", "=", "M", ";", "J", "G", "T">>
                      => w = <<"1", "1", "1", "1", "1", "1", "0", "0",
                               "0", "0", "0", "1", "0", "0", "0", "1">>

\* pass 2 has just written the word of D=M;JGT
C6_Witness ==
    \E j \in 1..Len(input) :
        /\ JustRead(j)
        /\ Normal(j) = <<"D", "=", "M", ";", "J", "G", "T">>
        /\ out[Len(out)] = <<"1", "1", "1", "1", "1", "1", "0", "0",
                             "0", "0", "0", "1", "0", "0", "0", "1">>

-----------------------------------------------------------------------------
(* C7: one word per instruction, in program order *)

\* the raw lines among the first n that hold an Address or Compute
\* instruction, in order
Instructions(n) ==
    SelectSeq([j \in 1..n |-> j], LAMBDA j : IsAddress(j) \/ IsCompute(j))

\* the word of the instruction at raw line j under the current table
WordOf(j) ==
    IF IsAddress(j) THEN format_016b(ResolvedAddress(j))
    ELSE c_word(Normal(j))

\* the number of raw lines pass 2 has consumed, removed lines included
Consumed ==
    IF current_line < 0 THEN 0 ELSE RawIndex(current_line + 1)

\* C7, as stated: at every point of pass 2, and once it is over or has
\* ended with a fault, the output holds one word per Address or Compute
\* instruction read so far and none for a label, the i-th word is the
\* encoding of the i-th such instruction, and a pass that has ended has read
\* every instruction of the file.
C7_Claim ==
    pc \in {"pass2", "done", "error"} =>
        LET ins == Instructions(Consumed)
        IN  /\ Len(out) = Len(ins)
            /\ \A i \in 1..Len(ins) : out[i] = WordOf(ins[i])
            /\ pc # "pass2" => Len(ins) = Len(Instructions(Len(input)))

-----------------------------------------------------------------------------
(* C8: mnemonics that are in no table *)

\* C8: when pass 2 reads a Compute Instruction with a destination,
\* computation or jump field that is not a key of its table, Code.dest,
\* Code.comp and Code.jump return 000, 0000000 and 000 for the unmapped
\* fields, the word 111 comp dest jump of 16 digits is appended to the words
\* already written, which stay as they are, and the pass goes on.
C8_Theorem ==
    [][(pc = "pass2" /\ current_line' # current_line) =>
          LET j  == RawIndex(current_line' + 1)
              d  == Parser_dest(Normal(j))
              c  == Parser_comp(Normal(j))
              jm == Parser_jump(Normal(j))
          IN  (/\ IsCompute(j)
               /\ \/ d \notin DOMAIN dest_table
                  \/ c \notin DOMAIN comp_table
                  \/ jm \notin DOMAIN jump_table)
              => /\ d \notin DOMAIN dest_table => Code_dest(d) = <<"0", "0", "0">>
                 /\ c \notin DOMAIN comp_table => Code_comp(c) = <<"0", "0", "0", "0", "0", "0", "0">>
                 /\ jm \notin DOMAIN jump_table => Code_jump(jm) = <<"0", "0", "0">>
                 /\ Len(out') = Len(out) + 1
                 /\ SubSeq(out', 1, Len(out)) = out
                 /\ Len(out'[Len(out')]) = 16
                 /\ out'[Len(out')] =
                       <<"1", "1", "1">> \o Code_comp(c) \o Code_dest(d) \o Code_jump(jm)
                 /\ pc' = "pass2"
      ]_vars

\* pass 2 has written the word of a Compute Instruction whose three fields
\* are all unmapped, after the word of an earlier instruction
C8_Witness ==
    \E j \in 1..Len(input) :
        /\ JustRead(j)
        /\ IsCompute(j)
        /\ Parser_dest(Normal(j)) \notin DOMAIN dest_table
        /\ Parser_comp(Normal(j)) \notin DOMAIN comp_table
        /\ Parser_jump(Normal(j)) \notin DOMAIN jump_table
        /\ Len(out) = 2
        /\ out[2] = <<"1", "1", "1", "0", "0", "0", "0", "0",
                      "0", "0", "0", "0", "0", "0", "0", "0">>

-----------------------------------------------------------------------------
(* C9: two calls of assemble on the same input file *)

\* C9: a call of assemble starts from a symbol table that holds the
\* predefined symbols only, with next variable address 16, and when the
\* second call finds the input file as the first call found it, it ends as
\* the first call ended and leaves the output file as the first call left it.
C9_Theorem ==
    /\ (pc = "pass1" /\ current_line = -1) =>
          /\ table = predefined
          /\ next_variable_address = 16
          /\ rom_address = 0
    /\ (run = 2 /\ pc \in {"done", "error"} /\ input = first.input) =>
          /\ pc = first.pc
          /\ out = first.out

\* the second call is over for a file that allocates a variable after the
\* word of another instruction
C9_Witness ==
    /\ run = 2
    /\ pc = "done"
    /\ input = first.input
    /\ next_variable_address > 16
    /\ Len(out) = 2
    /\ out = first.out

-----------------------------------------------------------------------------
(* C10: the three fields of a Compute Instruction *)

\* number of occurrences of character c in text s
Count(s, c) == Cardinality({i \in 1..Len(s) : s[i] = c})

\* position of the first occurrence of character c in s, 0 if none
First(s, c) ==
    IF Count(s, c) = 0 THEN 0
    ELSE CHOOSE i \in 1..Len(s) : s[i] = c /\ \A k \in 1..(i - 1) : s[k] # c

\* dest, comp and jump put back together with the markers the line has
Rejoin(s, f) ==
    (IF Count(s, "=") > 0 THEN f.dest \o <<"=">> ELSE <<>>)
        \o f.comp
        \o (IF Count(s, ";") > 0 THEN <<";">> \o f.jump ELSE <<>>)

\* what is before the assignment marker, after it up to the jump separator,
\* and after the jump separator
FieldsByMarker(s) ==
    LET e    == First(s, "=")
        rest == SubSeq(s, e + 1, Len(s))
        r    == First(rest, ";")
        sc   == First(s, ";")
    IN  [dest |-> IF e = 0 THEN <<>> ELSE SubSeq(s, 1, e - 1),
         comp |-> IF r = 0 THEN rest ELSE SubSeq(rest, 1, r - 1),
         jump |-> IF sc = 0 THEN <<>> ELSE SubSeq(s, sc + 1, Len(s))]

\* at most one assignment marker and one jump separator, in that order
OneOfEach(s) ==
    /\ Count(s, "=") <= 1
    /\ Count(s, ";") <= 1
    /\ (Count(s, "=") = 1 /\ Count(s, ";") = 1) => First(s, "=") < First(s, ";")

\* C10, as stated: for every Compute Instruction line, lines with several
\* assignment markers or jump separators included, dest, comp and jump are
\* what is before the assignment marker, between it and the jump separator,
\* and after the jump separator, and rejoined they reproduce the line.
C10_Original ==
    pc = "parsed" =>
        /\ fields = FieldsByMarker(current_instruction)
        /\ Rejoin(current_instruction, fields) = current_instruction

\* position of the last occurrence of character c in s, 0 if none
Last(s, c) ==
    IF Count(s, c) = 0 THEN 0
    ELSE CHOOSE i \in 1..Len(s) : s[i] = c /\ \A k \in (i + 1)..Len(s) : s[k] # c

\* C10, amended: for every Compute Instruction line, dest is what is before
\* the first assignment marker (empty if there is none), comp is what
\* follows the last assignment marker (the whole line if there is none) up
\* to the next jump separator, and jump is what follows the last jump
\* separator (empty if there is none); when the line has at most one
\* assignment marker and at most one jump separator, the marker before the
\* separator, these are the fields of the claim and dest, comp and jump
\* rejoined with their markers reproduce the line.
C10_Amended ==
    pc = "parsed" =>
        LET s    == current_instruction
            rest == SubSeq(s, Last(s, "=") + 1, Len(s))
            r    == First(rest, ";")
        IN  /\ fields.dest =
                  (IF First(s, "=") = 0 THEN <<>>
                   ELSE SubSeq(s, 1, First(s, "=") - 1))
            /\ fields.comp = (IF r = 0 THEN rest ELSE SubSeq(rest, 1, r - 1))
            /\ fields.jump =
                  (IF Last(s, ";") = 0 THEN <<>>
                   ELSE SubSeq(s, Last(s, ";") + 1, Len(s)))
            /\ OneOfEach(s) =>
                  /\ fields = FieldsByMarker(s)
                  /\ Rejoin(s, fields) = s

\* the fields of a line with a destination, a computation and a jump
C10_Witness ==
    /\ pc = "parsed"
    /\ current_instruction = <<"M", "D", "=", "D", "+", "1", ";", "J", "G", "T">>
    /\ fields = [dest |-> <<"M", "D">>, comp |-> <<"D", "+", "1">>,
                 jump |-> <<"J", "G", "T">>]

====
